---- MODULE Spec2Model ----
(***************************************************************************)
(* A model of the state-validation crate.                                  *)
(*                                                                         *)
(*   Part 1  the field algebra (split_take / combine), step filters, the   *)
(*           chain composer for tuples of 2..8 Condition steps, and the    *)
(*           Validator (try_new / valid_output / execute).                 *)
(*           Specification: Spec.                                          *)
(*   Part 2  the StateFilterConversion derive macro: the structs and the   *)
(*           split / combine impls it emits for a struct declaration.      *)
(*           Specification: GenSpec.                                       *)
(*   Part 3  a use site of the crate: the trait impls the crate provides   *)
(*           for inputs, the resolution of a chain's where-clauses against *)
(*           them, and the UserExists / UserIsAdmin / RemoveAdmin example  *)
(*           of the crate documentation.  Specification: UseSpec.          *)
(***************************************************************************)
EXTENDS Integers, Sequences, FiniteSets, TLC

VARIABLES
    chain,      \* the Filter type parameter: a tuple of Condition<Input_i, F_i>
    owned,      \* <<s>>: the State value s the caller owns; Moved once it was passed on
    held,       \* <<s>>: the `state` parameter inside try_new; Moved outside a call
    phase,      \* "idle" | "filtering" | "validated" | "failed" | "rejected"
    given,      \* the (state, input) arguments of the try_new call in progress / last made
    v,          \* the running value of the chain's filter
    pc,         \* index of the next chain step to run
    result,     \* what the chain's filter returned, None while it has not returned
    validator,  \* the Validator the caller holds, or None
    returned,   \* what the last try_new returned to the caller, None before
    calls,      \* the trait-method invocations of the try_new call, in order
    uses,       \* with_valid_input invocations made through the current Validator
    actionArgs, \* the (state, valid) arguments of the last with_valid_input call
    observed,   \* the value the last valid_output call returned a reference to
    shape,      \* the struct given to #[derive(StateFilterConversion)], None in Part 1
    output,     \* what the derive macro produced for it, None before it ran
    site,       \* a use of Validator::try_new in a dependent crate, None in Parts 1, 2
    outcome,    \* how that use resolved and, once run, what it returned
    handles,    \* the DynValidAction values the caller holds, None outside Part 4
    dynCall,    \* the last call made through an erased filter or action
    collected,  \* a CollectedInputs: the inputs its iterator has yet to yield
    fit         \* the fits_all / fits_any call in progress or returned

vars == <<chain, owned, held, phase, given, v, pc, result, validator, returned,
          calls, uses, actionArgs, observed, shape, output, site, outcome,
          handles, dynCall, collected, fit>>

runVars == <<chain, owned, held, phase, given, v, pc, result, validator, returned,
             calls, uses, actionArgs, observed>>

genVars == <<shape, output>>

useVars == <<site, outcome>>

dynVars == <<handles, dynCall>>

collVars == <<collected, fit>>

(***************************************************************************)
(* Bounds and program constants                                            *)
(***************************************************************************)
MaxVal == 1

MinChain == 2

MaxChain == 8

None == [none |-> TRUE]

Moved == <<>>

Vals == 0..MaxVal

States == Vals

FieldNames == {"a", "b", "c"}

Inputs == [FieldNames -> Vals]

FilterKinds == {"Bump", "Check"}

ActionKinds == {"Keep", "Store"}

(***************************************************************************)
(* Helpers on sequences and records-as-functions                           *)
(***************************************************************************)
Range(s) == {s[k] : k \in 1..Len(s)}

Restrict(f, S) == [x \in S |-> f[x]]

IndexOf(s, x) == CHOOSE k \in 1..Len(s) : s[k] = x

(***************************************************************************)
(* Field algebra.  A struct value is a function from its field names to    *)
(* values; a step's declared input names the fields it takes, in order.    *)
(* split_take moves the taken fields into a tuple and the others into the  *)
(* remainder; combine puts a tuple back under the taken names beside the   *)
(* remainder's fields.                                                     *)
(***************************************************************************)
SplitTake(value, take) ==
    <<[k \in 1..Len(take) |-> value[take[k]]],
      Restrict(value, (DOMAIN value) \ Range(take))>>

Combine(remainder, take, out) ==
    [f \in (DOMAIN remainder) \cup Range(take) |->
        IF f \in Range(take) THEN out[IndexOf(take, f)] ELSE remainder[f]]

(***************************************************************************)
(* Step filters: StateFilter::filter(state, input) -> Result.  Bump always *)
(* succeeds and replaces its input; Check reads the state and fails on the *)
(* value the state bans, passing its input through otherwise.              *)
(***************************************************************************)
Ok(x) == [ok |-> TRUE, val |-> x]

Err(e) == [ok |-> FALSE, err |-> e]

Filter(kind, st, input) ==
    IF kind = "Bump"
    THEN Ok([k \in 1..Len(input) |-> (input[k] + 1) % (MaxVal + 1)])
    ELSE IF \E k \in 1..Len(input) : input[k] = st
         THEN Err([by |-> kind, got |-> input])
         ELSE Ok(input)

(* The declared input of step i (0-based): steps alternate between a and b. *)
TargetOf(i) == IF i % 2 = 0 THEN <<"a">> ELSE <<"b">>

(* The tuples of Conditions a caller can write down as the Filter type:    *)
(* one Condition up to one more than the longest implemented tuple.        *)
Chains ==
    UNION {
        {[i \in 1..n |-> [take |-> TargetOf(i - 1), kind |-> ks[i]]] :
            ks \in [1..n -> FilterKinds]} :
        n \in 1..(MaxChain + 1)}

(* a tuple of Conditions implements StateFilter for 2 to 8 Conditions *)
ChainImplementedUpToSeven(n) == n \in MinChain..(MaxChain - 1)

ChainImplemented(n) == n \in MinChain..MaxChain

(* StateFilterNChainError::Filter_i(e) *)
ChainErrorFilter0(i, e) == [tag |-> 0, payload |-> e]

ChainError(i, e) == [tag |-> i, payload |-> e]

(***************************************************************************)
(* ValidAction::with_valid_input(self, state, valid) -> Output (= State).  *)
(***************************************************************************)
WithValidInput(act, st, valid) ==
    IF act = "Store" THEN valid["a"] ELSE st

(***************************************************************************)
(* Initial state: the caller owns a State, no call was made yet.           *)
(***************************************************************************)
Init ==
    /\ chain \in Chains
    /\ owned \in {<<st>> : st \in States}
    /\ held = Moved
    /\ phase = "idle"
    /\ given = None
    /\ v = None
    /\ pc = 0
    /\ result = None
    /\ validator = None
    /\ returned = None
    /\ calls = <<>>
    /\ uses = 0
    /\ actionArgs = None
    /\ observed = None
    /\ shape = None
    /\ output = None
    /\ site = None
    /\ outcome = None
    /\ handles = None
    /\ dynCall = None
    /\ collected = None
    /\ fit = None

(***************************************************************************)
(* Validator::try_new(state, input): takes ownership of the state and      *)
(* enters Filter::filter(&state, input).                                   *)
(***************************************************************************)
TryNew(input) ==
    /\ phase = "idle"
    /\ ChainImplemented(Len(chain))
    /\ owned # Moved
    /\ validator = None
    /\ given' = [state |-> owned[1], input |-> input]
    /\ held' = owned
    /\ owned' = Moved
    /\ phase' = "filtering"
    /\ v' = input
    /\ pc' = 0
    /\ result' = None
    /\ returned' = None
    /\ calls' = <<>>
    /\ uses' = 0
    /\ actionArgs' = None
    /\ observed' = None
    /\ UNCHANGED <<chain, validator>>
    /\ UNCHANGED genVars
    /\ UNCHANGED useVars
    /\ UNCHANGED dynVars
    /\ UNCHANGED collVars

(***************************************************************************)
(* One step of the chain's filter:                                         *)
(*     let (input, remainder) = v.split_take();                            *)
(*     F_i::filter(state, input).map(|v| remainder.combine(v))             *)
(*                               .map_err(|e| ...ChainError::Filter_i(e))  *)
(* StepOutcome is what the closure of step i computes; StepCalls are the   *)
(* trait methods it invokes; NextOf is how map / map_err / and_then carry  *)
(* the outcome on: Ok runs the next closure, Err skips every later one.    *)
(***************************************************************************)
StepOutcomeOtherState(step, i, st, value) ==
    LET sp == SplitTake(value, step.take)
        r  == Filter(step.kind, (st + 1) % (MaxVal + 1), sp[1])
    IN  [input |-> sp[1],
         remainder |-> sp[2],
         take |-> step.take,
         seen |-> (st + 1) % (MaxVal + 1),
         res |-> r,
         next |-> IF r.ok THEN Combine(sp[2], step.take, r.val) ELSE None,
         err |-> IF r.ok THEN None ELSE ChainError(i, r.err)]

StepOutcomeRecombinesInput(step, i, st, value) ==
    LET sp == SplitTake(value, step.take)
        r  == Filter(step.kind, st, sp[1])
    IN  [input |-> sp[1],
         remainder |-> sp[2],
         take |-> step.take,
         seen |-> st,
         res |-> r,
         next |-> IF r.ok THEN Combine(sp[2], step.take, sp[1]) ELSE None,
         err |-> IF r.ok THEN None ELSE ChainError(i, r.err)]

StepOutcome(step, i, st, value) ==
    LET sp == SplitTake(value, step.take)
        r  == Filter(step.kind, st, sp[1])
    IN  [input |-> sp[1],
         remainder |-> sp[2],
         take |-> step.take,
         seen |-> st,
         res |-> r,
         next |-> IF r.ok THEN Combine(sp[2], step.take, r.val) ELSE None,
         err |-> IF r.ok THEN None ELSE ChainError(i, r.err)]

StepCalls(i, o) ==
    <<[op |-> "split_take", step |-> i],
      [op |-> "filter", step |-> i, st |-> o.seen, arg |-> o.input, res |-> o.res]>>
    \o (IF o.res.ok THEN <<[op |-> "combine", step |-> i]>> ELSE <<>>)

NextOfRetries(o, i, n) ==
    IF o.res.ok
    THEN [v |-> o.next, pc |-> i + 1,
          result |-> IF i + 1 = n THEN Ok(o.next) ELSE None]
    ELSE [v |-> Combine(o.remainder, o.take, o.input), pc |-> i, result |-> None]

NextOfContinues(o, i, n) ==
    IF o.res.ok
    THEN [v |-> o.next, pc |-> i + 1,
          result |-> IF i + 1 = n THEN Ok(o.next) ELSE None]
    ELSE [v |-> Combine(o.remainder, o.take, o.input), pc |-> i + 1,
          result |-> IF i + 1 = n THEN Err(o.err) ELSE None]

NextOfSkipsLast(o, i, n) ==
    IF o.res.ok
    THEN [v |-> o.next, pc |-> i + 1,
          result |-> IF i + 2 >= n THEN Ok(o.next) ELSE None]
    ELSE [v |-> None, pc |-> i, result |-> Err(o.err)]

NextOf(o, i, n) ==
    IF o.res.ok
    THEN [v |-> o.next, pc |-> i + 1,
          result |-> IF i + 1 = n THEN Ok(o.next) ELSE None]
    ELSE [v |-> None, pc |-> i, result |-> Err(o.err)]

ChainStep ==
    /\ phase = "filtering"
    /\ result = None
    /\ pc < Len(chain)
    /\ LET o  == StepOutcome(chain[pc + 1], pc, held[1], v)
           nx == NextOf(o, pc, Len(chain))
       IN  /\ calls' = calls \o StepCalls(pc, o)
           /\ v' = nx.v
           /\ pc' = nx.pc
           /\ result' = nx.result
    /\ UNCHANGED <<chain, owned, held, phase, given, validator, returned, uses,
                   actionArgs, observed>>
    /\ UNCHANGED genVars
    /\ UNCHANGED useVars
    /\ UNCHANGED dynVars
    /\ UNCHANGED collVars

(***************************************************************************)
(* The end of try_new: `?` returns the filter's error and drops the state, *)
(* Ok packs the state and the valid output into a Validator.               *)
(***************************************************************************)
NewValidatorDefaultState(st, value) == [state |-> 0, value |-> value]

NewValidator(st, value) == [state |-> st, value |-> value]

TryNewErrorPayload(e) == e.payload

TryNewError(e) == e

TryNewReturnHandsBack ==
    /\ phase = "filtering"
    /\ result # None
    /\ IF result.ok
       THEN /\ validator' = NewValidator(held[1], result.val)
            /\ returned' = [ok |-> TRUE]
            /\ phase' = "validated"
            /\ owned' = owned
       ELSE /\ validator' = None
            /\ returned' = Err(TryNewError(result.err))
            /\ phase' = "failed"
            /\ owned' = held
    /\ held' = Moved
    /\ UNCHANGED <<chain, given, v, pc, result, calls, uses, actionArgs, observed>>
    /\ UNCHANGED genVars
    /\ UNCHANGED useVars
    /\ UNCHANGED dynVars
    /\ UNCHANGED collVars

TryNewReturn ==
    /\ phase = "filtering"
    /\ result # None
    /\ IF result.ok
       THEN /\ validator' = NewValidator(held[1], result.val)
            /\ returned' = [ok |-> TRUE]
            /\ phase' = "validated"
       ELSE /\ validator' = None
            /\ returned' = Err(TryNewError(result.err))
            /\ phase' = "failed"
    /\ held' = Moved
    /\ UNCHANGED <<chain, owned, given, v, pc, result, calls, uses, actionArgs,
                   observed>>
    /\ UNCHANGED genVars
    /\ UNCHANGED useVars
    /\ UNCHANGED dynVars
    /\ UNCHANGED collVars

(***************************************************************************)
(* Validator::valid_output(&self)                                          *)
(***************************************************************************)
ValidOutput ==
    /\ validator # None
    /\ observed' = validator.value
    /\ UNCHANGED <<chain, owned, held, phase, given, v, pc, result, validator,
                   returned, calls, uses, actionArgs>>
    /\ UNCHANGED genVars
    /\ UNCHANGED useVars
    /\ UNCHANGED dynVars
    /\ UNCHANGED collVars

(***************************************************************************)
(* Validator::execute(self, action): consumes the Validator and hands its  *)
(* state and valid output to the action; the caller gets the Output.       *)
(***************************************************************************)
AfterExecuteKeeps(val) == val

AfterExecute(val) == None

Execute(act) ==
    /\ validator # None
    /\ actionArgs' = [state |-> validator.state, valid |-> validator.value]
    /\ uses' = uses + 1
    /\ owned' = <<WithValidInput(act, validator.state, validator.value)>>
    /\ validator' = AfterExecute(validator)
    /\ phase' = "idle"
    /\ UNCHANGED <<chain, held, given, v, pc, result, returned, calls, observed>>
    /\ UNCHANGED genVars
    /\ UNCHANGED useVars
    /\ UNCHANGED dynVars
    /\ UNCHANGED collVars

(***************************************************************************)
(* After a failed try_new the state is gone; the caller obtains a State    *)
(* from elsewhere before it can validate again.                            *)
(***************************************************************************)
Reacquire(st) ==
    /\ phase = "failed"
    /\ owned = Moved
    /\ owned' = <<st>>
    /\ phase' = "idle"
    /\ UNCHANGED <<chain, held, given, v, pc, result, validator, returned,
                   calls, uses, actionArgs, observed>>
    /\ UNCHANGED genVars
    /\ UNCHANGED useVars
    /\ UNCHANGED dynVars
    /\ UNCHANGED collVars

(***************************************************************************)
(* A tuple of Conditions of a length without a StateFilter impl does not   *)
(* satisfy Filter: StateFilter<State, Input>: the call of try_new is       *)
(* rejected by the compiler and nothing runs.                              *)
(***************************************************************************)
RejectChain ==
    /\ phase = "idle"
    /\ ~ChainImplemented(Len(chain))
    /\ phase' = "rejected"
    /\ UNCHANGED <<chain, owned, held, given, v, pc, result, validator, returned,
                   calls, uses, actionArgs, observed>>
    /\ UNCHANGED genVars
    /\ UNCHANGED useVars
    /\ UNCHANGED dynVars
    /\ UNCHANGED collVars

Next ==
    \/ \E input \in Inputs : TryNew(input)
    \/ RejectChain
    \/ ChainStep
    \/ TryNewReturn
    \/ ValidOutput
    \/ \E act \in ActionKinds : Execute(act)
    \/ \E st \in States : Reacquire(st)

Spec == Init /\ [][Next]_vars

(***************************************************************************)
(* Part 2: #[derive(StateFilterConversion)]                                *)
(*                                                                         *)
(* A declaration is a sequence of named fields, each with its type and the *)
(* types of its #[conversion(..)] attributes in order, and the types of    *)
(* the struct-level #[conversion(..)] attributes.                          *)
(***************************************************************************)
MaxFields == 2

MaxAlts == 1

MaxExtras == 1

MaxSlots == 4

Types == {"UserID", "Age"}

NamePool == <<"id", "age", "tag", "note">>

(* heck::ToSnakeCase on the last path segment of a type *)
SnakeCase(ty) == IF ty = "UserID" THEN "user_id" ELSE "age"

TypeLists == UNION {[1..n -> Types] : n \in 1..(1 + MaxAlts)}

ExtraLists == UNION {[1..m -> Types] : m \in 0..MaxExtras}

RECURSIVE SumLens(_)
SumLens(ss) == IF ss = <<>> THEN 0 ELSE Len(Head(ss)) + SumLens(Tail(ss))

Shapes ==
    {sh \in UNION {
                {[fields |-> [i \in 1..n |-> [name |-> NamePool[i], types |-> tl[i]]],
                  extras |-> ex] :
                    tl \in [1..n -> TypeLists], ex \in ExtraLists} :
                n \in 0..MaxFields} :
        SumLens([i \in 1..Len(sh.fields) |-> sh.fields[i].types]) + Len(sh.extras)
            <= MaxSlots}

(***************************************************************************)
(* Iterator adaptors, in the order itertools yields their items            *)
(***************************************************************************)
RECURSIVE Concat(_)
Concat(ss) == IF ss = <<>> THEN <<>> ELSE Head(ss) \o Concat(Tail(ss))

Without(s, j) == [k \in 1..(Len(s) - 1) |-> IF k < j THEN s[k] ELSE s[k + 1]]

(* Itertools::combinations(k) *)
RECURSIVE Combinations(_, _)
Combinations(s, k) ==
    IF k = 0 THEN << <<>> >>
    ELSE IF Len(s) < k THEN <<>>
    ELSE LET rest == Combinations(Tail(s), k - 1)
         IN  [c \in 1..Len(rest) |-> <<Head(s)>> \o rest[c]]
             \o Combinations(Tail(s), k)

(* Itertools::permutations(len) of a whole vector *)
RECURSIVE Perms(_)
Perms(s) ==
    IF s = <<>> THEN << <<>> >>
    ELSE Concat([j \in 1..Len(s) |->
                    LET rest == Perms(Without(s, j))
                    IN  [q \in 1..Len(rest) |-> <<s[j]>> \o rest[q]]])

(* Itertools::powerset *)
PowersetProper(s) == Concat([k \in 1..Len(s) |-> Combinations(s, k - 1)])

Powerset(s) == Concat([k \in 1..(Len(s) + 1) |-> Combinations(s, k - 1)])

(* Itertools::multi_cartesian_product; the product of no iterators is one  *)
(* empty vector.                                                           *)
RECURSIVE Product(_)
NullaryProduct == << <<>> >>

Product(ss) ==
    IF ss = <<>> THEN NullaryProduct
    ELSE Concat([j \in 1..Len(Head(ss)) |->
                    LET rest == Product(Tail(ss))
                    IN  [q \in 1..Len(rest) |-> <<Head(ss)[j]>> \o rest[q]]])

(* for k in 0..=len { for c in combinations(k) { for s in c.permutations(k) *)
SelectionsInOrder(all) ==
    Concat([k \in 1..(Len(all) + 1) |-> Combinations(all, k - 1)])

Selections(all) ==
    Concat([k \in 1..(Len(all) + 1) |->
               LET cs == Combinations(all, k - 1)
               IN  Concat([c \in 1..Len(cs) |-> Perms(cs[c])])])

(***************************************************************************)
(* ConversionSort: a type with the sort number of its field; Ord compares  *)
(* the sort number only, Eq and Hash compare both.  Vec::sort and          *)
(* Itertools::sorted are stable.                                           *)
(***************************************************************************)
Entry(name, sort, ty) == [name |-> name, sort |-> sort, ty |-> ty]

ConversionSort(e) == [sort |-> e.sort, ty |-> e.ty]

RECURSIVE InsertSorted(_, _)
InsertSorted(x, s) ==
    IF s = <<>> THEN <<x>>
    ELSE IF x.sort < Head(s).sort THEN <<x>> \o s
    ELSE <<Head(s)>> \o InsertSorted(x, Tail(s))

RECURSIVE SortOnto(_, _)
SortOnto(s, acc) ==
    IF s = <<>> THEN acc ELSE SortOnto(Tail(s), InsertSorted(Head(s), acc))

Sorted(s) == SortOnto(s, <<>>)

NamesOf(es) == [k \in 1..Len(es) |-> es[k].name]

TysOf(es) == [k \in 1..Len(es) |-> es[k].ty]

KeyOfUnsorted(es) == [k \in 1..Len(es) |-> ConversionSort(es[k])]

KeyOf(es) == Sorted([k \in 1..Len(es) |-> ConversionSort(es[k])])

(***************************************************************************)
(* The candidates of every field (`iter`): the field's own type, then its  *)
(* conversion types; then one candidate list per struct-level conversion.  *)
(***************************************************************************)
FieldCandidates(sh) ==
    [i \in 1..Len(sh.fields) |->
        [j \in 1..Len(sh.fields[i].types) |->
            Entry(sh.fields[i].name, i - 1, sh.fields[i].types[j])]]

ExtraCandidatesKeepCase(sh) ==
    [j \in 1..Len(sh.extras) |->
        <<Entry(sh.extras[j], (j - 1) + Len(sh.fields), sh.extras[j])>>]

ExtraCandidates(sh) ==
    [j \in 1..Len(sh.extras) |->
        <<Entry(SnakeCase(sh.extras[j]), (j - 1) + Len(sh.fields), sh.extras[j])>>]

AllCandidates(sh) == FieldCandidates(sh) \o ExtraCandidates(sh)

(* The fields create_original_conversion_combinations works on *)
PrimaryFields(sh) ==
    [i \in 1..Len(sh.fields) |-> Entry(sh.fields[i].name, i - 1, sh.fields[i].types[1])]

(***************************************************************************)
(* combination_names / remainder_names: one struct per selection of one    *)
(* candidate from each field of a subset, numbered in emission order and   *)
(* inserted under its sorted types; HashMap::insert keeps the last.        *)
(***************************************************************************)
Registry(iter, kind) ==
    LET subsets == Powerset(iter)
        items   == Concat([p \in 1..Len(subsets) |-> Product(subsets[p])])
    IN  [i \in 1..Len(items) |->
            [id |-> <<kind, i - 1>>,
             names |-> NamesOf(items[i]),
             types |-> TysOf(items[i]),
             key |-> KeyOf(items[i])]]

Missing == [missing |-> TRUE]

Lookup(regs, key) ==
    LET hits == {i \in 1..Len(regs) : regs[i].key = key}
    IN  IF hits = {} THEN Missing
        ELSE regs[CHOOSE i \in hits : \A j \in hits : j <= i]

Original == <<"Original", 0>>

(* the fields whose name no field of the subset has *)
RemainderOfByType(all, subset) ==
    SelectSeq(all, LAMBDA a : ~\E k \in 1..Len(subset) : subset[k].ty = a.ty)

RemainderOf(all, subset) ==
    SelectSeq(all, LAMBDA a : ~\E k \in 1..Len(subset) : subset[k].name = a.name)

(* impl StateFilterInputConversion<(current types)> for src *)
EmitSplit(src, remId, cur, other) ==
    [src |-> src, target |-> TysOf(cur), take |-> NamesOf(cur),
     keep |-> NamesOf(other), rem |-> remId]

(* impl StateFilterInputCombination<(current types)> for the remainder *)
EmitCombineForgetsRemainder(remId, combinedId, cur, other) ==
    [rem |-> remId, target |-> TysOf(cur), take |-> NamesOf(cur),
     keep |-> <<>>, combined |-> combinedId]

EmitCombine(remId, combinedId, cur, other) ==
    [rem |-> remId, target |-> TysOf(cur), take |-> NamesOf(cur),
     keep |-> NamesOf(other), combined |-> combinedId]

(* One pass of the loop body of create_original_conversion_combinations *)
OriginalItem(fields, subset, comb, rems) ==
    LET other == RemainderOf(fields, subset)
        cr    == Lookup(comb, KeyOf(subset \o other))
        rr    == Lookup(rems, KeyOf(other))
    IN  IF cr = Missing \/ rr = Missing
        THEN [ok |-> FALSE]
        ELSE [ok |-> TRUE, split |-> EmitSplit(Original, rr.id, subset, other)]

(* One pass of the loop body over the cartesian product of all candidates *)
PairItemSplitsRemainder(choice, subset, comb, rems) ==
    LET other == RemainderOf(choice, subset)
        cr    == Lookup(comb, KeyOf(subset \o other))
        rr    == Lookup(rems, KeyOf(other))
    IN  IF cr = Missing \/ rr = Missing
        THEN [ok |-> FALSE]
        ELSE [ok |-> TRUE,
              split |-> EmitSplit(rr.id, rr.id, subset, other),
              combine |-> EmitCombine(rr.id, cr.id, subset, other)]

PairItem(choice, subset, comb, rems) ==
    LET other == RemainderOf(choice, subset)
        cr    == Lookup(comb, KeyOf(subset \o other))
        rr    == Lookup(rems, KeyOf(other))
    IN  IF cr = Missing \/ rr = Missing
        THEN [ok |-> FALSE]
        ELSE [ok |-> TRUE,
              split |-> EmitSplit(cr.id, rr.id, subset, other),
              combine |-> EmitCombine(rr.id, cr.id, subset, other)]

(* state_filter_conversion: a failed lookup panics and nothing is emitted *)
StateFilterConversion(sh) ==
    LET iter  == AllCandidates(sh)
        comb  == Registry(iter, "Combined")
        rems  == Registry(iter, "Remainder")
        prim  == PrimaryFields(sh)
        sels  == Selections(prim)
        orig  == [k \in 1..Len(sels) |-> OriginalItem(prim, sels[k], comb, rems)]
        prod  == Product(iter)
        pairs == Concat([c \in 1..Len(prod) |->
                     LET choice == prod[c]
                         subs   == Selections(choice)
                     IN  [k \in 1..Len(subs) |-> PairItem(choice, subs[k], comb, rems)]])
    IN  IF \/ \E k \in 1..Len(orig) : ~orig[k].ok
           \/ \E k \in 1..Len(pairs) : ~pairs[k].ok
        THEN [panicked |-> TRUE, fields |-> NamesOf(prim), combined |-> <<>>,
              remainders |-> <<>>, splits |-> <<>>, combines |-> <<>>]
        ELSE [panicked |-> FALSE,
              fields |-> NamesOf(prim),
              combined |-> comb,
              remainders |-> rems,
              splits |-> [k \in 1..Len(orig) |-> orig[k].split]
                         \o [k \in 1..Len(pairs) |-> pairs[k].split],
              combines |-> [k \in 1..Len(pairs) |-> pairs[k].combine]]

(***************************************************************************)
(* What the emitted impls do to values.  A struct value is a function from *)
(* field names to values.                                                  *)
(*   split_take:  ((self.take_1, ..), Remainder { keep_j: self.keep_j })   *)
(*   combine:     Combined { take_1, .., keep_j: self.keep_j }             *)
(***************************************************************************)
SplitBy(e, x) ==
    <<[k \in 1..Len(e.take) |-> x[e.take[k]]],
      [f \in Range(e.keep) |-> x[f]]>>

CombineBy(c, rest, taken) ==
    [f \in Range(c.take) \cup Range(c.keep) |->
        IF f \in Range(c.take) THEN taken[IndexOf(c.take, f)] ELSE rest[f]]

(* the field names of an emitted struct, or of the original struct *)
FieldsOf(out, id) ==
    IF id = Original THEN Range(out.fields)
    ELSE LET regs == out.combined \o out.remainders
         IN  Range(regs[CHOOSE i \in 1..Len(regs) : regs[i].id = id].names)

GenInit ==
    /\ shape \in Shapes
    /\ output = None
    /\ chain = <<>>
    /\ owned = Moved
    /\ held = Moved
    /\ phase = "derive"
    /\ given = None
    /\ v = None
    /\ pc = 0
    /\ result = None
    /\ validator = None
    /\ returned = None
    /\ calls = <<>>
    /\ uses = 0
    /\ actionArgs = None
    /\ observed = None
    /\ site = None
    /\ outcome = None
    /\ handles = None
    /\ dynCall = None
    /\ collected = None
    /\ fit = None

Derive ==
    /\ phase = "derive"
    /\ output = None
    /\ output' = StateFilterConversion(shape)
    /\ UNCHANGED <<shape, runVars, useVars, dynVars, collVars>>

GenNext == Derive

GenSpec == GenInit /\ [][GenNext]_vars

(***************************************************************************)
(* Part 2, generics: the parameter list of the generated structs           *)
(*                                                                         *)
(* A type is a path of one segment: a name and its angle-bracketed type    *)
(* arguments.  A declaration is the struct's type parameters and the types *)
(* of its fields.                                                          *)
(***************************************************************************)
MaxGenFields == 2

TypeParams == {"T", "U"}

Path(name, args) == [name |-> name, args |-> args]

LeafTypes == {Path(n, <<>>) : n \in TypeParams \cup {"UserID"}}

GenFieldTypes ==
    LeafTypes
        \cup {Path("Vec", <<l>>) : l \in LeafTypes}
        \cup {Path("Vec", <<Path("Option", <<l>>)>>) : l \in LeafTypes}

GenShapes ==
    {[params |-> ps, types |-> ts] :
        ps \in SUBSET TypeParams,
        ts \in UNION {[1..n -> GenFieldTypes] : n \in 1..MaxGenFields}}

(* BTreeSet<Ident> in iteration order *)
RECURSIVE SortedIdents(_)
SortedIdents(S) ==
    IF S = {} THEN <<>>
    ELSE LET least == CHOOSE x \in S : \A y \in S : (x = y) \/ (x = "T")
         IN  <<least>> \o SortedIdents(S \ {least})

(* collect_generics on a Type::Path: an argument that is a bare identifier *)
(* naming a type parameter of the struct is inserted, then the argument is *)
(* visited in turn; the path's own name is not looked at.                  *)
RECURSIVE CollectGenerics(_, _)
CollectGenerics(ty, params) ==
    UNION {(IF ty.args[k].args = <<>> /\ ty.args[k].name \in params
            THEN {ty.args[k].name} ELSE {})
               \cup CollectGenerics(ty.args[k], params) : k \in 1..Len(ty.args)}

ExtractGenericsFromType(ty, params) == SortedIdents(CollectGenerics(ty, params))

(* merge_generics: the parameters of b that a does not have, appended *)
MergeGenerics(a, b) ==
    a \o SelectSeq(b, LAMBDA x : ~\E k \in 1..Len(a) : a[k] = x)

RECURSIVE MergeAll(_, _)
MergeAll(acc, gs) ==
    IF gs = <<>> THEN acc ELSE MergeAll(MergeGenerics(acc, Head(gs)), Tail(gs))

(* pub struct Combined_i #generics { fields } for every subset of fields *)
GeneratedStructs(sh) ==
    LET idx  == Powerset([i \in 1..Len(sh.types) |-> i])
    IN  [p \in 1..Len(idx) |->
            [types |-> [k \in 1..Len(idx[p]) |-> sh.types[idx[p][k]]],
             generics |-> MergeAll(<<>>,
                 [k \in 1..Len(idx[p]) |->
                     ExtractGenericsFromType(sh.types[idx[p][k]], sh.params)])]]

GenericsInit ==
    /\ shape \in GenShapes
    /\ output = None
    /\ site = None
    /\ outcome = None
    /\ chain = <<>>
    /\ owned = Moved
    /\ held = Moved
    /\ phase = "generics"
    /\ given = None
    /\ v = None
    /\ pc = 0
    /\ result = None
    /\ validator = None
    /\ returned = None
    /\ calls = <<>>
    /\ uses = 0
    /\ actionArgs = None
    /\ observed = None
    /\ handles = None
    /\ dynCall = None
    /\ collected = None
    /\ fit = None

DeriveGenerics ==
    /\ phase = "generics"
    /\ output = None
    /\ output' = GeneratedStructs(shape)
    /\ UNCHANGED <<shape, runVars, useVars, dynVars, collVars>>

GenericsNext == DeriveGenerics

GenericsSpec == GenericsInit /\ [][GenericsNext]_vars

(***************************************************************************)
(* Part 3: a use site                                                      *)
(*                                                                         *)
(* Types are named types (Ty) or tuples of types; () is the empty tuple.   *)
(* A use site brings its own named types and may write impls of the        *)
(* crate's traits for them.                                                *)
(***************************************************************************)
MinTupleInput == 1

MaxTupleInput == 16

MaxUseChain == 3

MaxId == 1

Ty(name) == [atom |-> name]

Tuple(es) == [elems |-> es]

Unit == Tuple(<<>>)

IsTuple(t) == "elems" \in DOMAIN t

UserID == Ty("UserID")

User == Ty("User")

AdminUser == Ty("AdminUser")

(* impl StateFilterInput for (T1, .., Tn), n in 1..16, and the impls the   *)
(* use site wrote for its own types                                        *)
RECURSIVE ImplsStateFilterInput(_, _)
ImplsStateFilterInput(st, t) ==
    IF IsTuple(t)
    THEN /\ Len(t.elems) \in MinTupleInput..MaxTupleInput
         /\ \A k \in 1..Len(t.elems) : ImplsStateFilterInput(st, t.elems[k])
    ELSE t \in st.inputs

(* The crate declares the trait StateFilterInputConversion and has no impl *)
(* of it; a split impl is [src, target, rem].                              *)
CrateSplitImpls == {}

SplitImpls(st) == CrateSplitImpls \cup st.splits

NoType == [no |-> TRUE]

(* <T as StateFilterInputConversion<U>>::Remainder *)
RemainderType(st, t, u) ==
    LET found == {i \in SplitImpls(st) : i.src = t /\ i.target = u}
    IN  IF found = {} THEN NoType ELSE (CHOOSE i \in found : TRUE).rem

(* <R as StateFilterInputCombination<V>>::Combined for the crate's impls:  *)
(*   ()        with T     gives T                                          *)
(*   (U,)      with (T,)  gives (U, T)                                     *)
(*   (U, ())   with (T,)  gives (U, T)                                     *)
(*   (U0, U1)  with (T,)  gives (U0, U1, T)                                *)
(*   (U0, U1)  with ()    gives (U0, U1)                                   *)
CombinedType(st, r, val) ==
    LET In(t) == ImplsStateFilterInput(st, t)
        one   == IsTuple(val) /\ Len(val.elems) = 1 /\ In(val.elems[1])
    IN  IF ~IsTuple(r) THEN NoType
        ELSE IF r = Unit
             THEN IF In(val) THEN val ELSE NoType
        ELSE IF Len(r.elems) = 1 /\ In(r.elems[1]) /\ one
             THEN Tuple(<<r.elems[1], val.elems[1]>>)
        ELSE IF Len(r.elems) = 2 /\ r.elems[2] = Unit /\ In(r.elems[1]) /\ one
             THEN Tuple(<<r.elems[1], val.elems[1]>>)
        ELSE IF Len(r.elems) = 2 /\ In(r.elems[1]) /\ In(r.elems[2]) /\ one
             THEN Tuple(<<r.elems[1], r.elems[2], val.elems[1]>>)
        ELSE IF Len(r.elems) = 2 /\ In(r.elems[1]) /\ In(r.elems[2]) /\ val = Unit
             THEN Tuple(<<r.elems[1], r.elems[2]>>)
        ELSE NoType

(***************************************************************************)
(* The filters of the crate documentation and the identity filter          *)
(***************************************************************************)
FilterNames == {"UserExists", "UserIsAdmin", "()"}

(* the Input a filter is implemented for *)
FilterInput(f) ==
    IF f = "UserExists" THEN UserID
    ELSE IF f = "UserIsAdmin" THEN User
    ELSE Unit

(* its ValidOutput *)
FilterOutput(f) ==
    IF f = "UserExists" THEN User
    ELSE IF f = "UserIsAdmin" THEN AdminUser
    ELSE Unit

(* Condition<Input, Filter> *)
Condition(input, f) == [input |-> input, filter |-> f]

Conditions == {Condition(FilterInput(f), f) : f \in FilterNames}

(* The where-clauses of the chain impls, step by step: the running type    *)
(* must split for the step's declared input, and the remainder must        *)
(* combine with the step filter's ValidOutput.                             *)
RECURSIVE ChainOutputType(_, _, _, _)
ChainOutputType(st, ch, cur, i) ==
    IF i > Len(ch) THEN cur
    ELSE LET rem  == RemainderType(st, cur, ch[i].input)
             comb == IF rem = NoType THEN NoType
                     ELSE CombinedType(st, rem, FilterOutput(ch[i].filter))
         IN  IF comb = NoType THEN NoType
             ELSE ChainOutputType(st, ch, comb, i + 1)

(* <Filter as StateFilter<State, Input>>::ValidOutput, NoType when Filter  *)
(* does not implement StateFilter<State, Input>                            *)
ValidOutputType(st) ==
    IF st.use.kind = "single"
    THEN IF FilterInput(st.use.filter) = st.input.ty
         THEN FilterOutput(st.use.filter) ELSE NoType
    ELSE LET ch == st.use.chain
         IN  IF /\ ChainImplemented(Len(ch))
                /\ ImplsStateFilterInput(st, st.input.ty)
                /\ \A k \in 1..Len(ch) :
                       /\ ImplsStateFilterInput(st, ch[k].input)
                       /\ FilterInput(ch[k].filter) = ch[k].input
             THEN ChainOutputType(st, ch, st.input.ty, 1)
             ELSE NoType

(* ValidAction<State, Input: StateFilterInput> *)
ActionAccepted(st) ==
    /\ ValidOutputType(st) # NoType
    /\ ImplsStateFilterInput(st, st.input.ty)

(***************************************************************************)
(* Values: UserID(n), User { id, username }, AdminUser(User), ();          *)
(* UserStorage { maps: HashMap<UserID, User> }                             *)
(***************************************************************************)
Ids == 0..MaxId

Usernames == {"ADMIN", "GUEST"}

UnitValue == [unit |-> TRUE]

UserIDValue(n) == [id0 |-> n]

UserValue(n, name) == [id |-> n, username |-> name]

AdminUserValue(u) == [user |-> u]

Users == {UserValue(n, name) : n \in Ids, name \in Usernames}

Storages == UNION {[D -> Users] : D \in SUBSET Ids}

(* UserExists::filter *)
UserExists(state, userId) ==
    IF userId.id0 \in DOMAIN state
    THEN Ok(state[userId.id0])
    ELSE Err("UserDoesNotExistError")

(* UserIsAdmin::filter *)
UserIsAdmin(state, user) ==
    IF user.username = "ADMIN"
    THEN Ok(AdminUserValue(user))
    ELSE Err("UserIsNotAdminError")

(* <() as StateFilter<State, ()>>::filter *)
UnitFilter(state, value) == Ok(UnitValue)

RunFilter(f, state, value) ==
    IF f = "UserExists" THEN UserExists(state, value)
    ELSE IF f = "UserIsAdmin" THEN UserIsAdmin(state, value)
    ELSE UnitFilter(state, value)

(* RemoveAdmin::with_valid_input: state.maps.remove(&admin_user.0.id).unwrap() *)
RemoveAdmin(state, adminUser) ==
    IF adminUser.user.id \in DOMAIN state
    THEN [panicked |-> FALSE,
          state |-> [k \in (DOMAIN state) \ {adminUser.user.id} |-> state[k]]]
    ELSE [panicked |-> TRUE, state |-> state]

(* split_take of the whole-value impls a use site writes: (self, ()) *)
WholeSplit(value) == <<value, UnitValue>>

(* <() as StateFilterInputCombination<T>>::combine *)
UnitCombineKeepsUnit(rest, value) == rest

UnitCombine(rest, value) == value

(* the tuple impls of combine: the remainder's elements, then the value's *)
TupleCombine(rty, rest, value) ==
    IF Len(rty.elems) = 2 /\ rty.elems[2] = Unit
    THEN Tuple(<<rest.elems[1]>> \o value.elems)
    ELSE IF value = UnitValue THEN rest
    ELSE Tuple(rest.elems \o value.elems)

CombineValue(rty, rest, value) ==
    IF rty = Unit THEN UnitCombine(rest, value) ELSE TupleCombine(rty, rest, value)

(***************************************************************************)
(* Use sites: the impls the site wrote for its types (none, as in the      *)
(* crate documentation, or the marker and whole-value split impls), the    *)
(* input, the Filter type parameter, and the state.                        *)
(***************************************************************************)
SiteTypes == {UserID, User, AdminUser}

SiteImpls ==
    {[inputs |-> {}, splits |-> {}],
     [inputs |-> SiteTypes,
      splits |-> {[src |-> t, target |-> t, rem |-> Unit] : t \in SiteTypes}]}

SiteInputs ==
    {[ty |-> UserID, val |-> UserIDValue(n)] : n \in Ids}
        \cup {[ty |-> Unit, val |-> UnitValue]}

SiteUses ==
    {[kind |-> "single", filter |-> f, chain |-> <<>>] : f \in FilterNames}
        \cup {[kind |-> "chain", filter |-> "", chain |-> ch] :
                 ch \in UNION {[1..n -> Conditions] : n \in 1..MaxUseChain}}

Sites ==
    {[inputs |-> w.inputs, splits |-> w.splits, input |-> i, use |-> u, state |-> s] :
        w \in SiteImpls, i \in SiteInputs, u \in SiteUses, s \in Storages}

(* the Filter of RemoveAdmin in the crate documentation *)
RemoveAdminFilter == <<Condition(UserID, "UserExists"), Condition(User, "UserIsAdmin")>>

UseInit ==
    /\ site \in Sites
    /\ outcome = None
    /\ shape = None
    /\ output = None
    /\ chain = <<>>
    /\ owned = Moved
    /\ held = Moved
    /\ phase = "use"
    /\ given = None
    /\ v = None
    /\ pc = 0
    /\ result = None
    /\ validator = None
    /\ returned = None
    /\ calls = <<>>
    /\ uses = 0
    /\ actionArgs = None
    /\ observed = None
    /\ handles = None
    /\ dynCall = None
    /\ collected = None
    /\ fit = None

(* Type checking of Validator::try_new(state, input) at the site *)
Compile ==
    /\ phase = "use"
    /\ outcome = None
    /\ outcome' = [valid |-> ValidOutputType(site),
                   executable |-> ActionAccepted(site),
                   at |-> 0,
                   cur |-> site.input.val,
                   curTy |-> site.input.ty,
                   result |-> None,
                   combines |-> <<>>,
                   after |-> None]
    /\ UNCHANGED <<site, runVars, genVars, dynVars, collVars>>

(* One step of Filter::filter inside try_new: the whole filter when it is  *)
(* a single filter, the next Condition when it is a chain.                 *)
UseStep ==
    /\ phase = "use"
    /\ outcome # None
    /\ outcome.valid # NoType
    /\ outcome.result = None
    /\ IF site.use.kind = "single"
       THEN outcome' = [outcome EXCEPT
                !.result = RunFilter(site.use.filter, site.state, outcome.cur)]
       ELSE LET c     == site.use.chain[outcome.at + 1]
                remTy == RemainderType(site, outcome.curTy, c.input)
                sp    == WholeSplit(outcome.cur)
                r     == RunFilter(c.filter, site.state, sp[1])
                comb  == CombineValue(remTy, sp[2], r.val)
            IN  IF r.ok
                THEN outcome' = [outcome EXCEPT
                        !.at = outcome.at + 1,
                        !.cur = comb,
                        !.curTy = CombinedType(site, remTy, FilterOutput(c.filter)),
                        !.combines = Append(outcome.combines,
                            [remTy |-> remTy, rest |-> sp[2], value |-> r.val, out |-> comb]),
                        !.result = IF outcome.at + 1 = Len(site.use.chain)
                                   THEN Ok(comb) ELSE None]
                ELSE outcome' = [outcome EXCEPT
                        !.result = Err(ChainError(outcome.at, r.err))]
    /\ UNCHANGED <<site, runVars, genVars, dynVars, collVars>>

(* validator.execute(RemoveAdmin) *)
UseExecute ==
    /\ phase = "use"
    /\ outcome # None
    /\ outcome.executable
    /\ site.use.chain = RemoveAdminFilter
    /\ outcome.result # None
    /\ outcome.result.ok
    /\ outcome.after = None
    /\ outcome' = [outcome EXCEPT !.after = RemoveAdmin(site.state, outcome.result.val)]
    /\ UNCHANGED <<site, runVars, genVars, dynVars, collVars>>

UseNext == Compile \/ UseStep \/ UseExecute

UseSpec == UseInit /\ [][UseNext]_vars

(***************************************************************************)
(* Part 4: the type-erased filter and action (dynamic/state_filter.rs,     *)
(* dynamic/action.rs).  A Box<dyn Any> is a value together with the TypeId *)
(* of its concrete type; a function pointer made by a generic constructor  *)
(* is named by the type it was instantiated for.                           *)
(***************************************************************************)
MaxDyn == 1

MaxHandles == 2

MaxClones == 2

DynStates == 0..MaxDyn

DynInputs == 0..MaxDyn

(* the values of the concrete action types, the `self` of with_valid_input *)
Payloads == {"first", "second"}

(* concrete filters T: StateFilter<State, Input>, with ValidOutput and     *)
(* Error types of their own                                                *)
DynFilters == {"Below", "Equal"}

OutputType(f) == IF f = "Below" THEN "Index" ELSE "Match"

ErrorType(f) == IF f = "Below" THEN "TooLarge" ELSE "Mismatch"

Typed(ty, val) == [tyid |-> ty, val |-> val]

(* T::filter(state, input) *)
ConcreteFilter(f, state, input) ==
    IF f = "Below"
    THEN IF input <= state
         THEN Ok(Typed("Index", input)) ELSE Err(Typed("TooLarge", input - state))
    ELSE IF input = state
         THEN Ok(Typed("Match", state)) ELSE Err(Typed("Mismatch", input))

(* concrete actions T: ValidAction<State, Input>, with their Filter *)
DynActions == {"Store", "Reset"}

FilterOf(t) == IF t = "Store" THEN "Below" ELSE "Equal"

(* T::with_valid_input(self, state, valid): the Output records what the    *)
(* action was given                                                        *)
WithValidInputOf(t, payload, state, valid) ==
    [by |-> t, self |-> payload, state |-> state, valid |-> valid]

(* Box::new(v) as Box<dyn Any>, Box<dyn DynAnyClone>, Box<dyn Error> *)
BoxNew(tyid, val) == [boxed |-> Typed(tyid, val)]

(* Box<dyn Any>::downcast::<T>(): the value when the box holds a T *)
Downcast(box, tyid) ==
    IF box.boxed.tyid = tyid THEN Ok(box.boxed.val) ELSE Err("downcast")

(* v.into() for the wider ValidOutput of DynStateFilter::new *)
Into(typed) == [wide |-> typed]

(* DynStateFilter::new::<T>() and new_with_any_output::<T>(): the function *)
(* pointer of the closure instantiated for T                               *)
DynStateFilterNew(f) == [of |-> f, output |-> "into"]

NewWithAnyOutput(f) == [of |-> f, output |-> "any"]

(* the closure behind the pointer: match T::filter(state, input) *)
ErasedFilterSwallowsError(dsf, state, input) ==
    LET r == ConcreteFilter(dsf.of, state, input)
    IN  IF r.ok
        THEN Ok(IF dsf.output = "any" THEN BoxNew(r.val.tyid, r.val.val) ELSE Into(r.val))
        ELSE Ok(BoxNew(r.err.tyid, r.err.val))

ErasedFilter(dsf, state, input) ==
    LET r == ConcreteFilter(dsf.of, state, input)
    IN  IF r.ok
        THEN Ok(IF dsf.output = "any" THEN BoxNew(r.val.tyid, r.val.val) ELSE Into(r.val))
        ELSE Err(BoxNew(r.err.tyid, r.err.val))

(* DynStateFilter::filter: (self.0)(state, input) *)
DynStateFilterFilter(dsf, state, input) == ErasedFilter(dsf, state, input)

(* DynValidAction::new::<T>(valid_action); `clones` is not a field of the  *)
(* struct: it counts the clone calls between new and this value            *)
DynValidActionNew(t, payload) ==
    [filter |-> NewWithAnyOutput(FilterOf(t)),
     valid_action |-> BoxNew(t, payload),
     action |-> t,
     clones |-> 0]

(* <T as DynAnyClone>::any_clone through the trait object: Box::new(self.clone()) *)
AnyCloneOfBox(box) == BoxNew("Box<dyn DynAnyClone>", box)

AnyClone(box) == BoxNew(box.boxed.tyid, box.boxed.val)

(* Clone for DynValidAction *)
CloneOf(h) ==
    [filter |-> h.filter,
     valid_action |-> AnyClone(h.valid_action),
     action |-> h.action,
     clones |-> h.clones + 1]

(* the closure stored in `action`, instantiated for T:                     *)
(*   T::with_valid_input(valid_action.downcast().unwrap(), state,          *)
(*                       valid.downcast().unwrap()), both boxes unboxed     *)
ActionCall(t, valid_action, state, valid) ==
    LET a == Downcast(valid_action, t)
        o == Downcast(valid, OutputType(FilterOf(t)))
    IN  IF a.ok /\ o.ok
        THEN [panicked |-> FALSE,
              calls |-> <<[op |-> "with_valid_input", by |-> t, self |-> a.val,
                           state |-> state, valid |-> o.val]>>,
              output |-> <<WithValidInputOf(t, a.val, state, o.val)>>]
        ELSE [panicked |-> TRUE, calls |-> <<>>, output |-> <<>>]

(* DynValidAction::execute_with_filter(self, state, input) *)
ExecuteWithFilterRunsAction(h, state, input) ==
    LET r == DynStateFilterFilter(h.filter, state, input)
        a == ActionCall(h.action, h.valid_action, state,
                        IF r.ok THEN r.val ELSE r.err)
    IN  [panicked |-> a.panicked,
         calls |-> <<[op |-> "filter", of |-> h.filter.of, state |-> state,
                      arg |-> input]>> \o a.calls,
         returned |-> IF a.panicked THEN <<>> ELSE <<Ok(a.output[1])>>]

ExecuteWithFilter(h, state, input) ==
    LET r        == DynStateFilterFilter(h.filter, state, input)
        filtered == <<[op |-> "filter", of |-> h.filter.of, state |-> state,
                       arg |-> input]>>
    IN  IF r.ok
        THEN LET a == ActionCall(h.action, h.valid_action, state, r.val)
             IN  [panicked |-> a.panicked,
                  calls |-> filtered \o a.calls,
                  returned |-> IF a.panicked THEN <<>> ELSE <<Ok(a.output[1])>>]
        ELSE [panicked |-> FALSE,
              calls |-> filtered,
              returned |-> <<Err([state |-> state, error |-> r.err])>>]

DynInit ==
    /\ handles = <<>>
    /\ dynCall = None
    /\ collected = None
    /\ fit = None
    /\ shape = None
    /\ output = None
    /\ site = None
    /\ outcome = None
    /\ chain = <<>>
    /\ owned = Moved
    /\ held = Moved
    /\ phase = "dyn"
    /\ given = None
    /\ v = None
    /\ pc = 0
    /\ result = None
    /\ validator = None
    /\ returned = None
    /\ calls = <<>>
    /\ uses = 0
    /\ actionArgs = None
    /\ observed = None

(* let h = DynValidAction::new(valid_action) *)
DynNew(t, payload) ==
    /\ phase = "dyn"
    /\ Len(handles) < MaxHandles
    /\ handles' = Append(handles, DynValidActionNew(t, payload))
    /\ UNCHANGED <<dynCall, runVars, genVars, useVars, collVars>>

(* let h2 = h.clone() *)
DynClone(i) ==
    /\ phase = "dyn"
    /\ i \in 1..Len(handles)
    /\ Len(handles) < MaxHandles
    /\ handles[i].clones < MaxClones
    /\ handles' = Append(handles, CloneOf(handles[i]))
    /\ UNCHANGED <<dynCall, runVars, genVars, useVars, collVars>>

(* h.execute_with_filter(state, input): consumes the handle *)
DynExecute(i, state, input) ==
    /\ phase = "dyn"
    /\ i \in 1..Len(handles)
    /\ dynCall' = [kind |-> "execute", handle |-> handles[i], state |-> state,
                   input |-> input,
                   run |-> ExecuteWithFilter(handles[i], state, input)]
    /\ handles' = [k \in 1..(Len(handles) - 1) |->
                      IF k < i THEN handles[k] ELSE handles[k + 1]]
    /\ UNCHANGED <<runVars, genVars, useVars, collVars>>

(* DynStateFilter::new::<T>().filter(&state, input), or the same through   *)
(* h.filter()                                                              *)
DynFilter(dsf, state, input) ==
    /\ phase = "dyn"
    /\ dsf \in {DynStateFilterNew(f) : f \in DynFilters}
                \cup {handles[i].filter : i \in 1..Len(handles)}
    /\ dynCall' = [kind |-> "filter", filter |-> dsf, state |-> state, input |-> input,
                   run |-> [calls |-> <<[op |-> "filter", of |-> dsf.of, state |-> state,
                                         arg |-> input]>>,
                            returned |-> <<DynStateFilterFilter(dsf, state, input)>>]]
    /\ UNCHANGED <<handles, runVars, genVars, useVars, collVars>>

DynNext ==
    \/ \E t \in DynActions, payload \in Payloads : DynNew(t, payload)
    \/ \E i \in 1..MaxHandles : DynClone(i)
    \/ \E i \in 1..MaxHandles, state \in DynStates, input \in DynInputs :
           DynExecute(i, state, input)
    \/ \E f \in DynFilters, o \in {"into", "any"}, state \in DynStates, input \in DynInputs :
           DynFilter([of |-> f, output |-> o], state, input)

DynSpec == DynInit /\ [][DynNext]_vars

(***************************************************************************)
(* Part 5: CollectedInputs (input_collector.rs).  fits_all and fits_any    *)
(* consume the collection and drive Iterator::all / Iterator::any over its *)
(* inputs with the closure |input| F::filter(state, input).is_ok().        *)
(***************************************************************************)
MaxInputs == 3

InputSeqs == UNION {[1..n -> DynInputs] : n \in 0..MaxInputs}

Taken == [taken |-> TRUE]

(* CollectedInputs::new(inputs) *)
CollectedInputsNew(inputs) == [inputs |-> inputs]

(* Iterator::all stops with false at the first false, Iterator::any stops  *)
(* with true at the first true; <<>> means the iteration goes on           *)
AfterClosureAsAny(op, ok) == IF ok THEN <<TRUE>> ELSE <<>>

AfterClosure(op, ok) ==
    IF op = "fits_all"
    THEN IF ok THEN <<>> ELSE <<FALSE>>
    ELSE IF ok THEN <<TRUE>> ELSE <<>>

(* what all / any return when the iterator is exhausted *)
AtEnd(op) == <<op = "fits_all">>

CollInit ==
    /\ collected \in {CollectedInputsNew(s) : s \in InputSeqs}
    /\ fit = None
    /\ handles = None
    /\ dynCall = None
    /\ shape = None
    /\ output = None
    /\ site = None
    /\ outcome = None
    /\ chain = <<>>
    /\ owned = Moved
    /\ held = Moved
    /\ phase = "collect"
    /\ given = None
    /\ v = None
    /\ pc = 0
    /\ result = None
    /\ validator = None
    /\ returned = None
    /\ calls = <<>>
    /\ uses = 0
    /\ actionArgs = None
    /\ observed = None

(* collected.fits_all::<F>(&state) / fits_any::<F>(&state): self is moved  *)
(* into the call                                                           *)
Fits(op, f, state) ==
    /\ phase = "collect"
    /\ collected # Taken
    /\ fit = None
    /\ fit' = [op |-> op, f |-> f, state |-> state, inputs |-> collected.inputs,
               rest |-> collected.inputs, calls |-> <<>>, result |-> <<>>]
    /\ collected' = Taken
    /\ UNCHANGED <<runVars, genVars, useVars, dynVars>>

(* one turn of all / any: next(), then the closure on the item *)
FitsNext ==
    /\ phase = "collect"
    /\ fit # None
    /\ fit.result = <<>>
    /\ IF fit.rest = <<>>
       THEN fit' = [fit EXCEPT !.result = AtEnd(fit.op)]
       ELSE LET input == Head(fit.rest)
                r     == ConcreteFilter(fit.f, fit.state, input)
            IN  fit' = [fit EXCEPT
                    !.rest = Tail(fit.rest),
                    !.calls = Append(fit.calls,
                                  [state |-> fit.state, arg |-> input, ok |-> r.ok]),
                    !.result = AfterClosure(fit.op, r.ok)]
    /\ UNCHANGED <<collected, runVars, genVars, useVars, dynVars>>

CollNext ==
    \/ \E f \in DynFilters, state \in DynStates : Fits("fits_all", f, state)
    \/ \E f \in DynFilters, state \in DynStates : Fits("fits_any", f, state)
    \/ FitsNext

CollSpec == CollInit /\ [][CollNext]_vars

(***************************************************************************)
(* Properties of Part 1                                                    *)
(***************************************************************************)
FilterCalls == SelectSeq(calls, LAMBDA c : c.op = "filter")

Finished == result # None

Failed == result # None /\ ~result.ok

(* The left fold of section 4.3, from step i (0-based) on: v_0 = input,     *)
(* (t_i, r_i) = split_take(v_i), o_i = F_i(state, t_i),                     *)
(* v_(i+1) = combine(r_i, o_i); it stops at the first failing F_i.          *)
RECURSIVE RefFold(_, _, _, _)
RefFold(ch, st, value, i) ==
    IF i = Len(ch)
    THEN Ok(value)
    ELSE LET t == SplitTake(value, ch[i + 1].take)
             o == Filter(ch[i + 1].kind, st, t[1])
         IN  IF o.ok
             THEN RefFold(ch, st, Combine(t[2], ch[i + 1].take, o.val), i + 1)
             ELSE [ok |-> FALSE, at |-> i, err |-> o.err]

Reference == RefFold(chain, given.state, given.input, 0)

(* C1: when the filters of steps 0..i-1 succeed and the filter of step i   *)
(* returns error e, the chain's filter returns the error variant tagged i  *)
(* with payload exactly e, and with no other step's position.              *)
C1_FailingStepTagged ==
    Failed =>
        LET fc == FilterCalls
        IN  /\ Len(fc) >= 1
            /\ \A k \in 1..(Len(fc) - 1) : fc[k].res.ok
            /\ ~fc[Len(fc)].res.ok
            /\ fc[Len(fc)].step = Len(fc) - 1
            /\ result.err = [tag |-> Len(fc) - 1, payload |-> fc[Len(fc)].res.err]
            /\ \A j \in 0..(Len(chain) - 1) : j # Len(fc) - 1 => result.err.tag # j

C1_Witness ==
    /\ Failed
    /\ Len(chain) = MaxChain
    /\ result.err.tag = MaxChain - 1

(* C2: the step filters are invoked in index order 0, 1, 2, ..., each at   *)
(* most once, and after a failed filter no later split_take, filter or     *)
(* combine is invoked.                                                     *)
C2_InOrderOnceShortCircuit ==
    LET fc == FilterCalls
    IN  /\ \A k \in 1..Len(fc) : fc[k].step = k - 1
        /\ Len(fc) <= Len(chain)
        /\ \A j, k \in 1..Len(calls) : j < k => calls[j].step <= calls[k].step
        /\ \A j, k \in 1..Len(calls) :
              (calls[j].op = calls[k].op /\ calls[j].step = calls[k].step) => j = k
        /\ \A k \in 1..Len(calls) :
              (calls[k].op = "filter" /\ ~calls[k].res.ok) => k = Len(calls)

C2_Witness ==
    /\ phase = "failed"
    /\ Len(chain) = 3
    /\ result.err.tag = 1
    /\ Len(FilterCalls) = 2

(* C3: a Validator holds the state passed to try_new and the output the    *)
(* Filter produces for exactly that state and input; execute hands that    *)
(* pair to the action, and valid_output changes neither.                   *)
C3_ProofMatchesState ==
    /\ validator # None =>
          /\ validator.state = given.state
          /\ Reference.ok
          /\ validator.value = Reference.val
    /\ actionArgs # None =>
          /\ actionArgs.state = given.state
          /\ Reference.ok
          /\ actionArgs.valid = Reference.val
    /\ observed # None =>
          /\ Reference.ok
          /\ observed = Reference.val

C3_Witness ==
    /\ actionArgs # None
    /\ observed # None
    /\ owned # Moved
    /\ owned[1] # actionArgs.state
    /\ actionArgs.state = 1

(* C4: each successful try_new permits at most one execute: execute        *)
(* consumes the Validator and invokes with_valid_input once; afterwards    *)
(* no Validator is left and a further execute needs a new try_new on the   *)
(* state the action returned.                                              *)
C4_SingleUse ==
    /\ uses <= 1
    /\ uses = 1 => (validator = None /\ actionArgs # None /\ owned # Moved)
    /\ actionArgs # None => uses = 1
    /\ validator # None => (uses = 0 /\ owned = Moved /\ phase = "validated")
    /\ (\E act \in ActionKinds : ENABLED Execute(act)) => (uses = 0 /\ validator # None)
    /\ (\E input \in Inputs : ENABLED TryNew(input)) => validator = None

C4_Witness ==
    /\ uses = 1
    /\ validator = None
    /\ phase = "idle"
    /\ owned # Moved

(* C5: when the Filter returns an error, try_new returns exactly that      *)
(* error, no Validator and no proof exist for the call, no action runs     *)
(* and no filter is invoked again.                                         *)
C5_ErrorPropagated ==
    (returned # None /\ ~returned.ok) =>
        /\ Failed
        /\ ~Reference.ok
        /\ returned.err = result.err
        /\ returned.err = [tag |-> Reference.at, payload |-> Reference.err]
        /\ validator = None
        /\ observed = None
        /\ uses = 0
        /\ actionArgs = None
        /\ Len(FilterCalls) = Reference.at + 1

C5_Witness ==
    /\ phase = "failed"
    /\ returned # None
    /\ ~returned.ok
    /\ returned.err.tag = 2

(* C6: for every chain length 2..8, state and input, the chain's filter    *)
(* returns Ok(v_N) of the reference left fold exactly when every F_i       *)
(* succeeds, and an error otherwise.                                       *)
C6_EqualsLeftFold ==
    Finished =>
        /\ Len(chain) \in MinChain..MaxChain
        /\ result.ok = Reference.ok
        /\ result.ok => result.val = Reference.val

C6_Witness ==
    /\ Finished
    /\ result.ok
    /\ Len(chain) = MaxChain
    /\ result.val # given.input

(* C7: at every step the running value holds, for each field, the output   *)
(* of the latest earlier step that took it, or its original value when no  *)
(* earlier step took it; every step's input is read from that value and so *)
(* is the final output.                                                    *)
TakersBefore(f, i) == {j \in 0..(i - 1) : f \in Range(chain[j + 1].take)}

Latest(S) == CHOOSE j \in S : \A k \in S : k <= j

Current(f, i) ==
    IF TakersBefore(f, i) = {}
    THEN given.input[f]
    ELSE LET j == Latest(TakersBefore(f, i))
         IN  FilterCalls[j + 1].res.val[IndexOf(chain[j + 1].take, f)]

C7_RunningValueFrame ==
    /\ (phase = "filtering" /\ ~Finished) =>
          /\ DOMAIN v = DOMAIN given.input
          /\ \A f \in DOMAIN v : v[f] = Current(f, pc)
    /\ \A k \in 1..Len(FilterCalls) :
          FilterCalls[k].arg =
              [m \in 1..Len(chain[k].take) |-> Current(chain[k].take[m], k - 1)]
    /\ (Finished /\ result.ok) =>
          /\ DOMAIN result.val = DOMAIN given.input
          /\ \A f \in DOMAIN result.val : result.val[f] = Current(f, Len(chain))

C7_Witness ==
    /\ Finished
    /\ result.ok
    /\ result.val["c"] = given.input["c"]
    /\ Len(FilterCalls) >= 3
    /\ chain[1].kind = "Bump"
    /\ FilterCalls[3].arg # <<given.input["a"]>>
    /\ FilterCalls[3].arg = FilterCalls[1].res.val

(* C8: a chain run and try_new leave the State value as it was passed in,  *)
(* on success and on failure, and every step's filter of one run observes  *)
(* that same State value.                                                  *)
C8_StateUnchanged ==
    /\ \A k \in 1..Len(calls) : calls[k].op = "filter" => calls[k].st = given.state
    /\ phase = "filtering" => held = <<given.state>>
    /\ validator # None => validator.state = given.state

C8_Witness ==
    /\ phase = "failed"
    /\ Len(FilterCalls) = 4
    /\ FilterCalls[4].st = 1

(***************************************************************************)
(* Properties of Part 2                                                    *)
(***************************************************************************)
Derived == output # None

(* Some emitted combine impl for the remainder and target of split edge e  *)
(* rebuilds every value of e's source from the two halves of its split.    *)
RoundTrips(out, e) ==
    \E k \in 1..Len(out.combines) :
        LET c == out.combines[k]
        IN  /\ c.rem = e.rem
            /\ c.target = e.target
            /\ \A x \in [FieldsOf(out, e.src) -> Vals] :
                   LET s == SplitBy(e, x)
                   IN  CombineBy(c, s[2], s[1]) = x

C10_SplitPartitionsFieldNames ==
    Derived =>
        \A k \in 1..Len(output.splits) :
            LET e == output.splits[k]
                taken == Range(e.take)
                rest  == FieldsOf(output, e.rem)
            IN  /\ taken \cap rest = {}
                /\ taken \cup rest = FieldsOf(output, e.src)

C10_Witness ==
    /\ Derived
    /\ ~output.panicked
    /\ shape.extras # <<>>
    /\ \E k \in 1..Len(output.splits) :
           /\ output.splits[k].src = Original
           /\ output.splits[k].take # <<>>
           /\ output.splits[k].keep # <<>>
    /\ \E k, l \in 1..Len(output.splits) :
           /\ output.splits[k].src # Original
           /\ output.splits[k].src = output.splits[l].src
           /\ Len(output.splits[k].take) = 2
           /\ output.splits[l].take = <<output.splits[k].take[2], output.splits[k].take[1]>>

(* Every selection the registries are built from: one candidate from each  *)
(* field of a subset of the fields, in field order.                        *)
Drawn(sh) ==
    LET subsets == Powerset(AllCandidates(sh))
    IN  Range(Concat([p \in 1..Len(subsets) |-> Product(subsets[p])]))

TypeBag(sel) == [t \in Types |-> Cardinality({k \in 1..Len(sel) : sel[k].ty = t})]

Registered(regs, key) == {i \in 1..Len(regs) : regs[i].key = key}

Ambiguous(sh) ==
    LET cands == AllCandidates(sh)
    IN  \E i, j \in 1..Len(cands) :
            /\ i < j
            /\ Range(TysOf(cands[i])) \cap Range(TysOf(cands[j])) # {}

(* C12: when two different fields can supply the same target type the      *)
(* generator aborts, and it never emits two split impls with the same      *)
(* source and the same target that take different fields.                  *)
C12_AmbiguityAborts ==
    Derived =>
        /\ Ambiguous(shape) => output.panicked
        /\ \A k, l \in 1..Len(output.splits) :
               (/\ output.splits[k].src = output.splits[l].src
                /\ output.splits[k].target = output.splits[l].target)
                   => output.splits[k].take = output.splits[l].take

(***************************************************************************)
(* Properties of Part 3                                                    *)
(***************************************************************************)
Compiled == outcome # None

(* C13: combining the empty remainder () with a value returns that value,  *)
(* with every field as it was.                                             *)
C13_UnitCombineReturnsValue ==
    Compiled =>
        \A k \in 1..Len(outcome.combines) :
            outcome.combines[k].remTy = Unit =>
                outcome.combines[k].out = outcome.combines[k].value

C13_Witness ==
    /\ Compiled
    /\ Len(outcome.combines) = 2
    /\ outcome.combines[1].remTy = Unit
    /\ outcome.combines[1].out \in Users
    /\ outcome.combines[2].remTy = Unit
    /\ outcome.combines[2].out \in {AdminUserValue(u) : u \in Users}

(* C14: every input type splits for itself leaving the empty remainder, so *)
(* the chain of the crate documentation, whose first step declares the     *)
(* whole input type UserID, is accepted on a bare UserID.                  *)
C14_WholeInputSplits ==
    Compiled =>
        /\ \A t \in SiteTypes : RemainderType(site, t, t) = Unit
        /\ (site.input.ty = UserID /\ site.use.chain = RemoveAdminFilter)
               => outcome.valid # NoType

(* Properties of the struct-level conversions (Part 2) *)
ExtraSort(j) == (j - 1) + Len(shape.fields)

KeySorts(reg) == {reg.key[k].sort : k \in 1..Len(reg.key)}

(* In every generated struct a struct-level conversion is at most one      *)
(* field, named by the snake case of its type.                             *)
ExtraIsOneNamedField(regs) ==
    \A i \in 1..Len(regs) :
        /\ Cardinality(KeySorts(regs[i])) = Len(regs[i].key)
        /\ \A k \in 1..Len(regs[i].key), j \in 1..Len(shape.extras) :
               regs[i].key[k].sort = ExtraSort(j) =>
                   /\ regs[i].names[k] = SnakeCase(shape.extras[j])
                   /\ regs[i].types[k] = shape.extras[j]

(* Every subset of the declared fields and struct-level conversions has a  *)
(* generated struct.                                                       *)
EverySubsetHasStruct(regs) ==
    \A S \in SUBSET (0..(Len(shape.fields) + Len(shape.extras) - 1)) :
        \E i \in 1..Len(regs) : KeySorts(regs[i]) = S

(* The impls between generated structs take a struct-level conversion      *)
(* alone and together with a declared field, in both orders.               *)
ExtraInGeneratedEdges ==
    \A j \in 1..Len(shape.extras) :
        LET nx == SnakeCase(shape.extras[j])
            tx == shape.extras[j]
        IN  /\ \E k \in 1..Len(output.splits) :
                   /\ output.splits[k].src # Original
                   /\ output.splits[k].take = <<nx>>
                   /\ output.splits[k].target = <<tx>>
            /\ \E k \in 1..Len(output.combines) :
                   /\ output.combines[k].take = <<nx>>
                   /\ output.combines[k].target = <<tx>>
            /\ \A f \in 1..Len(shape.fields) :
                   /\ \E k \in 1..Len(output.splits) :
                          /\ output.splits[k].src # Original
                          /\ output.splits[k].take = <<nx, shape.fields[f].name>>
                   /\ \E k \in 1..Len(output.splits) :
                          /\ output.splits[k].src # Original
                          /\ output.splits[k].take = <<shape.fields[f].name, nx>>

ExtraInGeneratedCode ==
    /\ ExtraIsOneNamedField(output.combined)
    /\ ExtraIsOneNamedField(output.remainders)
    /\ EverySubsetHasStruct(output.combined)
    /\ EverySubsetHasStruct(output.remainders)
    /\ ExtraInGeneratedEdges

OriginalEdges == {k \in 1..Len(output.splits) : output.splits[k].src = Original}

(* C15: each struct-level conversion adds one field, named by the snake    *)
(* case of its type, that takes part like a declared field in the          *)
(* generated Combined and Remainder structs and in the impls between       *)
(* generated structs; the impls of the original struct range over its      *)
(* declared fields only.                                                   *)
C15_ExtraFieldInGeneratedTypes ==
    Derived =>
        /\ ExtraInGeneratedCode
        /\ \A k \in OriginalEdges :
               /\ Len(output.splits[k].take) + Len(output.splits[k].keep)
                      = Len(shape.fields)
               /\ Range(output.splits[k].take) \cup Range(output.splits[k].keep)
                      = Range(output.fields)

C15_Witness ==
    /\ Derived
    /\ Len(shape.extras) = 1
    /\ Len(shape.fields) = 2
    /\ SnakeCase(shape.extras[1]) \notin Range(output.fields)
    /\ \E k \in 1..Len(output.splits) :
           /\ output.splits[k].src # Original
           /\ output.splits[k].take = <<shape.fields[2].name, SnakeCase(shape.extras[1])>>
    /\ \E k \in OriginalEdges : Len(output.splits[k].take) = 2

(* C15 as stated: the struct-level conversions also take part in the impls *)
(* of the original struct.                                                 *)
C15_ExtraFieldEverywhere ==
    Derived =>
        /\ ExtraInGeneratedCode
        /\ \A k \in OriginalEdges :
               Len(output.splits[k].take) + Len(output.splits[k].keep)
                   = Len(shape.fields) + Len(shape.extras)

(* Properties of the generics of the generated structs (Part 2) *)
RECURSIVE Referenced(_, _)
Referenced(ty, params) ==
    (IF ty.args = <<>> /\ ty.name \in params THEN {ty.name} ELSE {})
        \cup UNION {Referenced(ty.args[k], params) : k \in 1..Len(ty.args)}

(* C16: the parameter list of every generated struct holds, each once, the *)
(* type parameters of the original struct that the types of its fields     *)
(* refer to, as a field's whole type or inside generic arguments, and no   *)
(* other parameter.                                                        *)
C16_GenericsAreReferencedParams ==
    (phase = "generics" /\ output # None) =>
        \A i \in 1..Len(output) :
            /\ Range(output[i].generics)
                   = UNION {Referenced(output[i].types[k], shape.params) :
                               k \in 1..Len(output[i].types)}
            /\ Cardinality(Range(output[i].generics)) = Len(output[i].generics)

(* Properties of the chain lengths (Part 1) *)
Accepted == phase \in {"filtering", "validated", "failed"}

(* C17: a tuple of 2 to 8 Conditions is accepted as the Filter of the      *)
(* input and runs; a single Condition and a tuple of more than 8           *)
(* Conditions are not accepted.                                            *)
C17_ChainsOfTwoToEight ==
    /\ Len(chain) \in 2..8 =>
           /\ phase # "rejected"
           /\ (phase = "idle" /\ owned # Moved) => \E input \in Inputs : ENABLED TryNew(input)
    /\ Len(chain) \notin 2..8 =>
           /\ ~Accepted
           /\ validator = None
           /\ ~\E input \in Inputs : ENABLED TryNew(input)

C17_Witness ==
    /\ Len(chain) = 8
    /\ phase = "validated"
    /\ Len(FilterCalls) = 8

(* C17 as stated: tuples of 1 to 8 Conditions are accepted, longer ones    *)
(* are not.                                                                *)
C17_ChainsOfOneToEight ==
    /\ Len(chain) \in 1..8 => phase # "rejected"
    /\ Len(chain) > 8 => ~Accepted

(* Properties of the identity filter and of the documented scenario (Part 3) *)
IdentityChain ==
    /\ site.use.kind = "chain"
    /\ ChainImplemented(Len(site.use.chain))
    /\ \A k \in 1..Len(site.use.chain) : site.use.chain[k] = Condition(Unit, "()")

(* C18: the identity filter () always returns Ok(()), and a chain whose    *)
(* every step is Condition<(), ()> is accepted, always succeeds, and       *)
(* returns a value equal to its input.                                     *)
C18_IdentityChainReturnsInput ==
    Compiled =>
        /\ (site.use.kind = "single" /\ site.use.filter = "()" /\ site.input.ty = Unit) =>
               /\ outcome.valid = Unit
               /\ outcome.result \in {None, Ok(UnitValue)}
        /\ IdentityChain =>
               /\ outcome.valid # NoType
               /\ outcome.result \in {None, Ok(site.input.val)}

StoredAs(name) ==
    /\ site.input.val.id0 \in DOMAIN site.state
    /\ site.state[site.input.val.id0].username = name

(* C19: for the chain (Condition<UserID, UserExists>, Condition<User,      *)
(* UserIsAdmin>) on a UserID, the result is the AdminUser of the stored    *)
(* user exactly when the state maps the id to a user named "ADMIN", the    *)
(* step-0 does-not-exist error exactly when the id is absent, and the      *)
(* step-1 not-admin error exactly when the id is present under another     *)
(* name; executing RemoveAdmin returns the state without that user's entry *)
(* and with every other entry as it was.                                   *)
C19_AdminScenario ==
    (Compiled /\ site.input.ty = UserID /\ site.use.kind = "chain"
        /\ site.use.chain = RemoveAdminFilter) =>
        /\ outcome.valid = AdminUser
        /\ outcome.executable
        /\ outcome.result # None =>
               LET id == site.input.val.id0
               IN  /\ (outcome.result.ok /\ outcome.result.val = AdminUserValue(site.state[id]))
                         <=> StoredAs("ADMIN")
                   /\ outcome.result = Err(ChainError(0, "UserDoesNotExistError"))
                         <=> id \notin DOMAIN site.state
                   /\ outcome.result = Err(ChainError(1, "UserIsNotAdminError"))
                         <=> (id \in DOMAIN site.state /\ ~StoredAs("ADMIN"))
        /\ outcome.after # None =>
               /\ ~outcome.after.panicked
               /\ DOMAIN outcome.after.state = (DOMAIN site.state) \ {site.input.val.id0}
               /\ \A k \in DOMAIN outcome.after.state : outcome.after.state[k] = site.state[k]

(* Properties of the registry lookups (Part 2) *)
FullKeys(sh) ==
    LET prod == Product(AllCandidates(sh))
    IN  {KeyOf(prod[c]) : c \in 1..Len(prod)}

(* C20: for every record shape, every registry lookup made while emitting  *)
(* edges finds an entry: the Combination type of the full field set under  *)
(* each alternate choice and the Remainder type of every complement, the   *)
(* empty Remainder included; generation never panics on a missing entry.   *)
C20_LookupsNeverMiss ==
    Derived =>
        /\ ~output.panicked
        /\ \A key \in FullKeys(shape) :
               Lookup(Registry(AllCandidates(shape), "Combined"), key) # Missing
        /\ Lookup(Registry(AllCandidates(shape), "Remainder"), <<>>) # Missing
        /\ \A k \in 1..Len(output.splits) :
               /\ \E i \in 1..Len(output.remainders) :
                      output.remainders[i].id = output.splits[k].rem
               /\ output.splits[k].src # Original =>
                      \E i \in 1..Len(output.combined) :
                          output.combined[i].id = output.splits[k].src

C20_Witness ==
    /\ Derived
    /\ ~output.panicked
    /\ Len(shape.fields) = MaxFields
    /\ \E k \in 1..Len(shape.fields) : Len(shape.fields[k].types) > 1
    /\ Len(shape.extras) > 0
    /\ \E k \in 1..Len(output.splits), i \in 1..Len(output.remainders) :
           /\ output.remainders[i].id = output.splits[k].rem
           /\ output.remainders[i].key = <<>>

(* Properties of the registry insertions (Part 2) *)
KeysDistinct(regs) ==
    \A i, j \in 1..Len(regs) : regs[i].key = regs[j].key => i = j

(* C21: no registry key is bound to two generated types: every insertion   *)
(* into the Combination registry and into the Remainder registry adds a    *)
(* new key or is rejected, and none overwrites an earlier entry.           *)
C21_NoKeyBoundTwice ==
    Derived =>
        \/ output.panicked
        \/ /\ KeysDistinct(output.combined)
           /\ KeysDistinct(output.remainders)

(* Properties of the sources of the split edges (Part 2) *)
SlotCount == Len(AllCandidates(shape))

FullIds == {output.combined[i].id : i \in {j \in 1..Len(output.combined) :
                                               Len(output.combined[j].key) = SlotCount}}

SplitSources == {output.splits[k].src : k \in 1..Len(output.splits)}

RemainderIds == {output.remainders[i].id : i \in 1..Len(output.remainders)}

CombinedIds == {output.combined[i].id : i \in 1..Len(output.combined)}

NamesDistinct ==
    LET cands == AllCandidates(shape)
    IN  \A i, j \in 1..Len(cands) : cands[i][1].name = cands[j][1].name => i = j

(* C22: split edges start from the original record and from Combination    *)
(* types only: for every full choice of alternates and every sub-selection *)
(* in every order, from the Combination type of the selected fields        *)
(* together with their complement, which holds every field when the field  *)
(* names are distinct.  No split edge starts from a generated Remainder    *)
(* type, so what a split leaves over is recombined before it is split      *)
(* again.                                                                  *)
C22_SplitsFromCombinationsOnly ==
    Derived =>
        /\ ~output.panicked
        /\ SplitSources \subseteq ({Original} \cup CombinedIds)
        /\ SplitSources \cap RemainderIds = {}
        /\ NamesDistinct => SplitSources \subseteq ({Original} \cup FullIds)
        /\ LET prod == Product(AllCandidates(shape))
           IN  \A c \in 1..Len(prod) :
                   LET sels == Selections(prod[c])
                   IN  \A q \in 1..Len(sels) :
                           LET other == RemainderOf(prod[c], sels[q])
                               src   == Lookup(output.combined, KeyOf(sels[q] \o other)).id
                           IN  \E k \in 1..Len(output.splits) :
                                   /\ output.splits[k].src = src
                                   /\ output.splits[k].target = TysOf(sels[q])
                                   /\ output.splits[k].take = NamesOf(sels[q])

C22_Witness ==
    /\ Derived
    /\ ~output.panicked
    /\ Len(shape.fields) = 2
    /\ \E i \in 1..Len(output.remainders) : Len(output.remainders[i].key) = 1
    /\ \E i \in 1..Len(output.combined) : Len(output.combined[i].key) \in 1..(SlotCount - 1)
    /\ \E k \in 1..Len(output.splits) :
           /\ output.splits[k].src \in FullIds
           /\ Len(output.splits[k].take) = 1
           /\ Len(output.splits[k].keep) = 1

(* C22 as stated: split edges also start from every generated Remainder    *)
(* type and from every Combination type of a smaller subset.               *)
C22_SplitsFromEveryGeneratedType ==
    (Derived /\ ~output.panicked) =>
        /\ \A i \in 1..Len(output.remainders) :
               output.remainders[i].key # <<>> => output.remainders[i].id \in SplitSources
        /\ \A i \in 1..Len(output.combined) :
               output.combined[i].key # <<>> => output.combined[i].id \in SplitSources

(* Properties of the edges of the original record (Part 2) *)
Orderings(n) ==
    {s \in UNION {[1..k -> 1..n] : k \in 0..n} :
        \A i, j \in 1..Len(s) : s[i] = s[j] => i = j}

RECURSIVE FallingFactorial(_, _)
FallingFactorial(n, k) == IF k = 0 THEN 1 ELSE n * FallingFactorial(n - 1, k - 1)

RECURSIVE SumFalling(_, _)
SumFalling(n, k) ==
    IF k < 0 THEN 0 ELSE FallingFactorial(n, k) + SumFalling(n, k - 1)

OriginalSplits == {k \in 1..Len(output.splits) : output.splits[k].src = Original}

RemainderById(id) ==
    output.remainders[CHOOSE i \in 1..Len(output.remainders) : output.remainders[i].id = id]

(* C23: for every subset of the record's fields of every size 0..N and     *)
(* every ordering of it, exactly one split edge from the original record   *)
(* takes those fields in that order; its target lists their primary types  *)
(* in that order and its Remainder type holds exactly the other fields.    *)
(* The record has sum over k = 0..N of N!/(N-k)! such edges, and their     *)
(* targets are pairwise different when the field types are.                *)
C23_OneOriginalEdgePerOrderedSubset ==
    Derived =>
        LET n     == Len(shape.fields)
            orig  == OriginalSplits
            name(i) == shape.fields[i].name
            prim(i) == shape.fields[i].types[1]
        IN  /\ ~output.panicked
            /\ Cardinality(orig) = SumFalling(n, n)
            /\ \A s \in Orderings(n) :
                   LET hits == {k \in orig :
                                   output.splits[k].take = [i \in 1..Len(s) |-> name(s[i])]}
                   IN  /\ Cardinality(hits) = 1
                       /\ \A k \in hits :
                              LET e   == output.splits[k]
                                  rem == RemainderById(e.rem)
                                  rest == (1..n) \ Range(s)
                              IN  /\ e.target = [i \in 1..Len(s) |-> prim(s[i])]
                                  /\ Range(e.keep) = {name(i) : i \in rest}
                                  /\ Len(rem.names) = Cardinality(rest)
                                  /\ \A i \in rest : \E j \in 1..Len(rem.names) :
                                         rem.names[j] = name(i) /\ rem.types[j] = prim(i)
            /\ (\A i, j \in 1..n : prim(i) = prim(j) => i = j) =>
                   \A k, l \in orig :
                       output.splits[k].target = output.splits[l].target => k = l

C23_Witness ==
    /\ Derived
    /\ ~output.panicked
    /\ Len(shape.fields) = 2
    /\ shape.fields[1].types[1] # shape.fields[2].types[1]
    /\ Len(shape.extras) > 0
    /\ Cardinality(OriginalSplits) = 5

(* Properties of the combine edges (Part 2) *)
CombinedById(id) ==
    output.combined[CHOOSE i \in 1..Len(output.combined) : output.combined[i].id = id]

(* C24: every emitted combine edge yields a Combination type that carries  *)
(* every field of the record and every struct-level extra field exactly    *)
(* once, each in its primary or one alternate type; no combine edge yields *)
(* a type with fewer fields.                                               *)
C24_CombineYieldsEveryField ==
    Derived =>
        /\ ~output.panicked
        /\ \A k \in 1..Len(output.combines) :
               LET cands == AllCandidates(shape)
                   c     == CombinedById(output.combines[k].combined)
               IN  /\ Len(c.key) = Len(cands)
                   /\ \A i \in 1..Len(cands) :
                          /\ c.key[i].sort = i - 1
                          /\ c.key[i].ty \in Range(TysOf(cands[i]))
                   /\ Len(output.combines[k].take) + Len(output.combines[k].keep) = Len(cands)

(* Properties of a failed try_new (Part 1) *)

(* C25: when try_new fails the state passed in is consumed and not handed  *)
(* back: the caller holds no state and no Validator, the returned error is *)
(* the Filter's error alone, and a further try_new is possible only after  *)
(* a state has been obtained anew.                                         *)
C25_FailureConsumesState ==
    phase = "failed" =>
        /\ owned = Moved
        /\ held = Moved
        /\ validator = None
        /\ DOMAIN returned = {"ok", "err"}
        /\ ~returned.ok
        /\ returned.err = result.err
        /\ ~\E input \in Inputs : ENABLED TryNew(input)

C25_Witness ==
    /\ phase = "failed"
    /\ owned = Moved
    /\ given.state = MaxVal
    /\ returned.err.tag = 0

(* Properties of the length of a run (Part 1) *)
CallsOf(op) == SelectSeq(calls, LAMBDA c : c.op = op)

Running == phase = "filtering" /\ result = None

RunBounded ==
    phase \in {"filtering", "validated", "failed"} =>
        /\ Len(chain) <= MaxChain
        /\ \A op \in {"split_take", "filter", "combine"} : Len(CallsOf(op)) <= Len(chain)
        /\ \A j, k \in 1..Len(calls) :
               (calls[j].op = calls[k].op /\ calls[j].step = calls[k].step) => j = k
        /\ Running =>
               /\ pc < Len(chain)
               /\ Len(FilterCalls) = pc
               /\ ENABLED ChainStep
        /\ (Finished /\ result.ok) =>
               /\ Len(CallsOf("split_take")) = Len(chain)
               /\ Len(FilterCalls) = Len(chain)
               /\ Len(CallsOf("combine")) = Len(chain)
        /\ Failed =>
               /\ calls[Len(calls)].op = "filter"
               /\ ~calls[Len(calls)].res.ok
               /\ calls[Len(calls)].step = result.err.tag
               /\ Len(FilterCalls) = result.err.tag + 1
               /\ Len(CallsOf("combine")) = result.err.tag

RunAdvances == Running => ((pc' = pc + 1 /\ calls' # calls) \/ result' # None)

(* C29: every run of a chain of N <= 8 steps ends after at most N filter   *)
(* invocations, N split_take calls and N combine calls: each step is run   *)
(* at most once, every step of a run in progress moves on to the next step *)
(* or ends the run, and a failing run ends with the failing step.          *)
C29_RunEndsWithinNSteps == [] RunBounded /\ [][RunAdvances]_vars

C29_Witness ==
    /\ Failed
    /\ Len(chain) = MaxChain
    /\ result.err.tag = 3
    /\ Len(CallsOf("combine")) = 3

(***************************************************************************)
(* Properties of Part 4                                                    *)
(***************************************************************************)
Executed == phase = "dyn" /\ dynCall # None /\ dynCall.kind = "execute"

Filtered == phase = "dyn" /\ dynCall # None /\ dynCall.kind = "filter"

SameOrigin(h) ==
    /\ h.valid_action.boxed.tyid = h.action
    /\ h.filter = NewWithAnyOutput(FilterOf(h.action))

ActionCallsOf(run) == SelectSeq(run.calls, LAMBDA c : c.op = "with_valid_input")

FilterCallsOf(run) == SelectSeq(run.calls, LAMBDA c : c.op = "filter")

(* C26: in every DynValidAction made by new and any number of clone calls  *)
(* the erased filter, the stored payload and the action function pointer   *)
(* come from one concrete action type, so both downcasts of an invocation  *)
(* succeed and execute_with_filter never panics.                           *)
C26_DowncastsSucceed ==
    phase = "dyn" =>
        /\ \A i \in 1..Len(handles) : SameOrigin(handles[i])
        /\ Executed =>
               /\ SameOrigin(dynCall.handle)
               /\ ~dynCall.run.panicked
               /\ Len(dynCall.run.returned) = 1

C26_Witness ==
    /\ Executed
    /\ dynCall.handle.clones = MaxClones
    /\ dynCall.handle.action = "Reset"
    /\ dynCall.run.returned[1].ok
    /\ Len(ActionCallsOf(dynCall.run)) = 1

(* C27: the erased filter built from a concrete filter T returns Ok        *)
(* exactly when T::filter returns Ok, carrying T's output converted or     *)
(* boxed, and Err exactly when T::filter returns Err, carrying T's error   *)
(* boxed; it calls T::filter once, on the state and input it was given.    *)
C27_ErasedFilterAgrees ==
    Filtered =>
        LET dsf == dynCall.filter
            c   == ConcreteFilter(dsf.of, dynCall.state, dynCall.input)
            r   == dynCall.run.returned[1]
        IN  /\ r.ok <=> c.ok
            /\ c.ok => /\ dsf.output = "any" => Downcast(r.val, OutputType(dsf.of)) = Ok(c.val.val)
                       /\ dsf.output = "into" => r.val = Into(c.val)
            /\ ~c.ok => Downcast(r.err, ErrorType(dsf.of)) = Ok(c.err.val)
            /\ dynCall.run.calls = <<[op |-> "filter", of |-> dsf.of,
                                      state |-> dynCall.state, arg |-> dynCall.input]>>

C27_Witness ==
    /\ Filtered
    /\ dynCall.filter = DynStateFilterNew("Below")
    /\ ~dynCall.run.returned[1].ok
    /\ dynCall.run.returned[1].err.boxed.tyid = "TooLarge"

(* C28: execute_with_filter runs the erased filter exactly once; when the  *)
(* filter succeeds the wrapped action is invoked exactly once with the     *)
(* given state and the filter's output, and when it fails the action is    *)
(* not invoked and the returned error holds the given state unchanged and  *)
(* the filter's boxed error.                                               *)
C28_ExecuteWithFilter ==
    Executed =>
        LET h   == dynCall.handle
            run == dynCall.run
            c   == ConcreteFilter(FilterOf(h.action), dynCall.state, dynCall.input)
        IN  /\ FilterCallsOf(run) = <<[op |-> "filter", of |-> FilterOf(h.action),
                                       state |-> dynCall.state, arg |-> dynCall.input]>>
            /\ run.calls[1].op = "filter"
            /\ c.ok =>
                   /\ ActionCallsOf(run) =
                          <<[op |-> "with_valid_input", by |-> h.action,
                             self |-> h.valid_action.boxed.val,
                             state |-> dynCall.state, valid |-> c.val.val]>>
                   /\ run.returned =
                          <<Ok(WithValidInputOf(h.action, h.valid_action.boxed.val,
                                                dynCall.state, c.val.val))>>
            /\ ~c.ok =>
                   /\ ActionCallsOf(run) = <<>>
                   /\ run.returned =
                          <<Err([state |-> dynCall.state,
                                 error |-> BoxNew(c.err.tyid, c.err.val)])>>

C28_Witness ==
    /\ Executed
    /\ ~dynCall.run.returned[1].ok
    /\ dynCall.run.returned[1].err.state = MaxDyn
    /\ dynCall.handle.clones = 1

(***************************************************************************)
(* Properties of Part 5                                                    *)
(***************************************************************************)
Passes(k) == ConcreteFilter(fit.f, fit.state, fit.inputs[k]).ok

FitsAllCalled == phase = "collect" /\ fit # None /\ fit.op = "fits_all"

(* C30: fits_all returns true exactly when every collected input passes    *)
(* the filter, true for no inputs; it invokes the filter on the inputs in  *)
(* order, each at most once, and not again after the first input that      *)
(* fails; every invocation sees the state it was given.                    *)
C30_FitsAll ==
    FitsAllCalled =>
        /\ Len(fit.calls) <= Len(fit.inputs)
        /\ \A k \in 1..Len(fit.calls) :
               /\ fit.calls[k].arg = fit.inputs[k]
               /\ fit.calls[k].state = fit.state
               /\ k < Len(fit.calls) => Passes(k)
        /\ fit.result # <<>> =>
               /\ fit.result[1] <=> \A k \in 1..Len(fit.inputs) : Passes(k)
               /\ fit.result[1] => Len(fit.calls) = Len(fit.inputs)
               /\ ~fit.result[1] =>
                      /\ ~Passes(Len(fit.calls))
                      /\ \A k \in 1..(Len(fit.calls) - 1) : Passes(k)
        /\ fit.result = <<>> => \A k \in 1..Len(fit.calls) : Passes(k)

C30_Witness ==
    /\ FitsAllCalled
    /\ fit.result = <<FALSE>>
    /\ Len(fit.inputs) = 3
    /\ Len(fit.calls) = 2

=============================================================================
